---- MODULE Spec2Model ----
(***************************************************************************)
(* Model of the support-chat client (ChatBot component): the conversation  *)
(* state machine, the response classifier, the option extractors, the      *)
(* missing-items / dropdown widgets and the direct-send bridge.            *)
(*                                                                         *)
(* A text is a sequence of lexemes (words, digits, punctuation, " " and    *)
(* "\n"); String.includes is contiguous-subsequence search over lexemes.   *)
(* Glyphs are written as upper-case names: CHECKBOX, CLIPBOARD, SIREN,     *)
(* CAR, PLANE, MONEY.                                                      *)
(***************************************************************************)
EXTENDS Integers, Sequences, FiniteSets, TLC

(* ---------------------------- bounds ---------------------------------- *)
\* the user acts while the message history is shorter than this
MaxMsgs == 7
\* largest value of the millisecond clock (Date.now()) explored
MaxClock == 1
\* most network calls outstanding at once that are explored
MaxInflight == 2
\* most fragments concatenated into one classifier input text
MaxFrags == 3

(* ---------------------------- lexemes --------------------------------- *)
SP == " "
Radix == 10
NL == "\n"

RECURSIVE Join(_, _)
\* the words of ws separated by sep: ws.join(sep)
Join(ws, sep) ==
  IF Len(ws) = 0 THEN <<>>
  ELSE IF Len(ws) = 1 THEN <<ws[1]>>
  ELSE <<ws[1]>> \o sep \o Join(Tail(ws), sep)

\* a phrase: its words separated by single spaces
Words(ws) == Join(ws, <<SP>>)

RECURSIVE Flatten(_)
\* concatenation of a sequence of texts
Flatten(ts) == IF Len(ts) = 0 THEN <<>> ELSE ts[1] \o Flatten(Tail(ts))

\* text.includes(pat)
Includes(text, pat) ==
  \E i \in 0..(Len(text) - Len(pat)) : \A j \in 1..Len(pat) : text[i + j] = pat[j]

IsSpace(tok) == tok \in {SP, NL}
\* the decimal digits, DigitTok[d + 1] being the lexeme of digit d
DigitTok == <<"0", "1", "2", "3", "4", "5", "6", "7", "8", "9">>
Digits == {DigitTok[i] : i \in 1..Len(DigitTok)}
IsDigit(tok) == tok \in Digits
DigitVal(tok) == (CHOOSE i \in 1..Len(DigitTok) : DigitTok[i] = tok) - 1

RECURSIVE ParseInt(_)
\* parseInt of a non-empty run of digits
ParseInt(ds) ==
  IF Len(ds) = 0 THEN 0
  ELSE ParseInt(SubSeq(ds, 1, Len(ds) - 1)) * Radix + DigitVal(ds[Len(ds)])

RECURSIVE NumToText(_)
\* the decimal text of a natural number, as a template literal prints it
NumToText(n) ==
  IF n < Radix THEN <<DigitTok[n + 1]>>
  ELSE NumToText(n \div Radix) \o <<DigitTok[(n % Radix) + 1]>>

RECURSIVE TrimStart(_)
TrimStart(s) == IF Len(s) > 0 /\ IsSpace(s[1]) THEN TrimStart(Tail(s)) ELSE s

RECURSIVE TrimEnd(_)
TrimEnd(s) ==
  IF Len(s) > 0 /\ IsSpace(s[Len(s)]) THEN TrimEnd(SubSeq(s, 1, Len(s) - 1)) ELSE s

\* String.prototype.trim
Trim(s) == TrimEnd(TrimStart(s))

RECURSIVE SplitFrom(_, _, _)
\* the lines of text from position i on, cur being the line read so far
SplitFrom(text, i, cur) ==
  IF i > Len(text) THEN <<cur>>
  ELSE IF text[i] = NL THEN <<cur>> \o SplitFrom(text, i + 1, <<>>)
  ELSE SplitFrom(text, i + 1, Append(cur, text[i]))

\* text.split('\n')
SplitLines(text) == SplitFrom(text, 1, <<>>)

(* ------------------------ marker phrases ------------------------------ *)
MissingHeader1 == Words(<<"Which", "items", "are", "missing", "from", "your", "order?">>)
MissingHeader2 == Words(<<"Missing", "Items", "Selection">>)

ExclHarassmentReport == Words(<<"Harassment", "Report">>)
ExclSelectHarassment == Words(<<"Select", "Harassment", "Type">>)
ExclSelectIssue      == Words(<<"Select", "Issue", "Type">>)
ExclAirportBooking   == Words(<<"Airport", "Booking">>)
ExclCancellation     == <<"Cancellation/Refund">>

DdSelectHarassment == Words(<<"CLIPBOARD", "Select", "Harassment", "Type">>) \o <<":">>
DdSelectIssue      == Words(<<"CLIPBOARD", "Select", "Issue", "Type">>) \o <<":">>
DdSelectAirport    == Words(<<"CLIPBOARD", "Select", "Airport", "Issue", "Type">>) \o <<":">>
DdSelectPolicy     == Words(<<"CLIPBOARD", "Select", "Policy", "Issue", "Type">>) \o <<":">>
DdDriverHarassment == <<"SIREN", SP, "**", "Driver", SP, "Harassment", SP, "Report", "**">>
DdAppBooking       == <<"CAR", SP, "**", "App/Booking", SP, "Issues", SP, "Report", "**">>
DdAirportBooking   == <<"PLANE", SP, "**", "Airport", SP, "Booking", SP, "Problems", "**">>
DdCancellation     ==
  <<"MONEY", SP, "**", "Cancellation/Refund", SP, "Policy", SP, "Issues", "**">>

(* -------------------------- classifier -------------------------------- *)
\* the exclusion phrases of isMissingItemsSelection
HasExclusion(text) ==
  \/ Includes(text, ExclHarassmentReport)
  \/ Includes(text, ExclSelectHarassment)
  \/ Includes(text, ExclSelectIssue)
  \/ Includes(text, ExclAirportBooking)
  \/ Includes(text, ExclCancellation)

\* HasMissingSignal without the numbered-list alternative
HasMissingSignalHeadersOnly(text) ==
  \/ Includes(text, MissingHeader1)
  \/ Includes(text, MissingHeader2)

\* the positive part of isMissingItemsSelection
HasMissingSignal(text) ==
  \/ Includes(text, MissingHeader1)
  \/ Includes(text, MissingHeader2)
  \/ (/\ Includes(text, <<"1", ".">>)
      /\ Includes(text, <<"2", ".">>)
      /\ Includes(text, <<"missing">>))

isMissingItemsSelection(text) == HasMissingSignal(text) /\ ~HasExclusion(text)

isGrabCabsDropdownSelection(text) ==
  \/ Includes(text, DdSelectHarassment)
  \/ Includes(text, DdSelectIssue)
  \/ Includes(text, DdSelectAirport)
  \/ Includes(text, DdSelectPolicy)
  \/ Includes(text, DdDriverHarassment)
  \/ Includes(text, DdAppBooking)
  \/ Includes(text, DdAirportBooking)
  \/ Includes(text, DdCancellation)

(* -------------------------- extractors -------------------------------- *)
\* length of the run of lexemes satisfying the regex class at position i
RECURSIVE SpaceRun(_, _)
SpaceRun(line, i) ==
  IF i <= Len(line) /\ IsSpace(line[i]) THEN 1 + SpaceRun(line, i + 1) ELSE 0

RECURSIVE DigitRun(_, _)
DigitRun(line, i) ==
  IF i <= Len(line) /\ IsDigit(line[i]) THEN 1 + DigitRun(line, i + 1) ELSE 0

\* (\d+)\.\s*(.+)$ matched at position i of line: at least one digit, a dot,
\* and a non-empty rest of line
NumberedAt(line, i) ==
  LET d == DigitRun(line, i)
  IN  /\ d >= 1
      /\ i + d <= Len(line)
      /\ line[i + d] = "."
      /\ i + d + 1 <= Len(line)

\* the item of a match of (\d+)\.\s*(.+)$ at position i: itemName.trim()
ItemAt(line, i) ==
  LET d == DigitRun(line, i)
  IN  [number   |-> ParseInt(SubSeq(line, i, i + d - 1)),
       name     |-> Trim(SubSeq(line, i + d + 1, Len(line))),
       selected |-> FALSE]

\* positions where the checkbox form  CHECKBOX \s* (\d+)\.\s*(.+)$  matches
CheckboxMatches(line) ==
  {i \in 1..Len(line) :
     /\ line[i] = "CHECKBOX"
     /\ NumberedAt(line, i + 1 + SpaceRun(line, i + 1))}

RECURSIVE parseMissingItemsLines(_)
parseMissingItemsLines(lines) ==
  IF Len(lines) = 0 THEN <<>>
  ELSE LET line == lines[1]
           cb   == CheckboxMatches(line)
           here ==
             IF cb # {}
             THEN LET i == CHOOSE k \in cb : \A j \in cb : k <= j
                  IN <<ItemAt(line, i + 1 + SpaceRun(line, i + 1))>>
             ELSE IF NumberedAt(line, 1) THEN <<ItemAt(line, 1)>>
             ELSE <<>>
       IN here \o parseMissingItemsLines(Tail(lines))

parseMissingItemsOptions(text) == parseMissingItemsLines(SplitLines(text))

RECURSIVE parseDropdownLines(_)
parseDropdownLines(lines) ==
  IF Len(lines) = 0 THEN <<>>
  ELSE LET t    == Trim(lines[1])
           here ==
             IF Len(t) >= 2 /\ t[1] = "CHECKBOX" /\ t[2] = SP
             THEN LET option == Trim(SubSeq(t, 3, Len(t)))
                  IN IF Len(option) > 0 THEN <<option>> ELSE <<>>
             ELSE <<>>
       IN here \o parseDropdownLines(Tail(lines))

parseGrabCabsDropdownOptions(text) == parseDropdownLines(SplitLines(text))

(* ----------------------- message synthesis ---------------------------- *)
AllPresentText == Words(<<"All", "items", "are", "present">>)

\* SelectionText with the plural phrasing for a single item too
SelectionTextPlural(selectedItems) ==
  LET itemNumbers == [i \in 1..Len(selectedItems) |-> NumToText(selectedItems[i].number)]
      itemNames   == [i \in 1..Len(selectedItems) |-> selectedItems[i].name]
  IN  IF Len(selectedItems) = 0 THEN AllPresentText
      ELSE <<"Items", SP>> \o Flatten(Join(itemNumbers, <<<<",", SP>>>>))
             \o <<SP, "are", SP, "missing", ":", SP>>
             \o Flatten(Join(itemNames, <<<<",", SP>>>>))

\* the text handleItemSelection hands to handleSendMessageDirect
SelectionText(selectedItems) ==
  LET itemNumbers == [i \in 1..Len(selectedItems) |-> NumToText(selectedItems[i].number)]
      itemNames   == [i \in 1..Len(selectedItems) |-> selectedItems[i].name]
  IN  IF Len(selectedItems) = 0 THEN AllPresentText
      ELSE IF Len(itemNumbers) = 1
      THEN <<"Item", SP>> \o itemNumbers[1] \o <<SP, "is", SP, "missing", ":", SP>>
             \o itemNames[1]
      ELSE <<"Items", SP>> \o Flatten(Join(itemNumbers, <<<<",", SP>>>>))
             \o <<SP, "are", SP, "missing", ":", SP>>
             \o Flatten(Join(itemNames, <<<<",", SP>>>>))

(* ------------------------ external collaborators ---------------------- *)
\* session context handed over by the router (location.state); "" is absent
Services  == {"", "grab_food"}
UserTypes == {"", "customer"}
username  == "alice"
orderId   == "ORD1"

MISSING_ITEMS_ID == "handle_missing_items"

\* the issue taxonomy the catalog service answers with
CategoryCatalog ==
  << [id |-> "order_quality", name |-> Words(<<"Order", "Quality">>)],
     [id |-> "payment",       name |-> <<"Payment">>] >>

SubIssueCatalog(categoryId) ==
  IF categoryId = "order_quality"
  THEN << [id |-> MISSING_ITEMS_ID, name |-> Words(<<"Report", "Items">>)],
          [id |-> "wrong_item",     name |-> Words(<<"Wrong", "Item">>)] >>
  ELSE << [id |-> "double_charge",  name |-> Words(<<"Double", "Charge">>)] >>

\* reply texts of the upstream text-generation service
PlainReply == Words(<<"We", "will", "look", "into", "it">>)

MissingItemsPrompt ==
  MissingHeader1 \o <<NL, "CHECKBOX", SP, "1", ".", SP, "Coke">>
                 \o <<NL, "CHECKBOX", SP, "2", ".", SP, "Fries">>

DropdownPrompt ==
  DdSelectHarassment \o <<NL, "CHECKBOX", SP, "Rude", SP, "behavior">>
                     \o <<NL, "CHECKBOX", SP, "Unsafe", SP, "driving">>

ImagePromptText == Words(<<"Upload", "a", "photo">>)

\* response.data of POST /chat
ChatResponses ==
  { [response |-> PlainReply,     requires_image |-> TRUE,  image_request |-> ImagePromptText],
    [response |-> DropdownPrompt, requires_image |-> FALSE, image_request |-> <<>>],
    [response |-> <<>>,           requires_image |-> FALSE, image_request |-> <<>>] }

\* response.data.categories of GET /categories, response.data.response of
\* POST /missing-items and of POST /chat/image
CategoryResponses     == {CategoryCatalog, <<>>}
MissingItemsResponses == {MissingItemsPrompt, DropdownPrompt, <<>>}
ImageResponses        == {Words(<<"Image", "received">>), <<>>}

\* what the user can type into the text area
Inputs == { <<>>, <<"hello", SP>> }

\* the files the user can pick, and what FileReader.readAsDataURL yields
Files == {"photo.png"}
DataUrl(file) == <<"data:image/png;base64", ",", "QUJD">>

(* ---------------------------- fixed texts ----------------------------- *)
\* the service name as fetchCategories prints it (grab_food -> Grab Food)
ServiceName(svc) ==
  IF svc = "grab_food" THEN Words(<<"Grab", "Food">>) ELSE <<svc>>

WelcomeText(svc) ==
  <<"Hello!", SP, "I'm", SP, "your", SP>> \o ServiceName(svc) \o <<SP>>
    \o Words(<<"support", "agent.", "Please", "select", "the", "category", "that",
               "best", "describes", "your", "issue">>) \o <<":">>
CategoriesErrorText ==
  Words(<<"Sorry,", "I", "had", "trouble", "loading", "the", "issue", "categories.",
          "Please", "try", "refreshing", "the", "page.">>)
SubIssuesPromptText ==
  Words(<<"Great!", "Now", "please", "select", "the", "specific", "issue", "you're",
          "experiencing">>) \o <<":">>
SubIssuesErrorText ==
  Words(<<"Sorry,", "I", "had", "trouble", "loading", "the", "specific", "issues.",
          "Please", "try", "again.">>)
MissingItemsRequestText ==
  Words(<<"I", "need", "to", "report", "missing", "items", "from", "my", "order">>)
DescribePromptText ==
  Words(<<"Thank", "you", "for", "selecting", "your", "issue.", "Please", "describe",
          "what", "happened", "in", "detail,", "and", "I'll", "help", "you", "resolve",
          "it.">>)
MissingFallbackText ==
  Words(<<"I", "apologize,", "but", "I", "encountered", "an", "error.", "Please",
          "try", "again.">>)
ChatFallbackText ==
  Words(<<"I", "apologize,", "but", "I", "encountered", "an", "error", "processing",
          "your", "request.", "Please", "try", "again.">>)
ChatErrorText ==
  Words(<<"Sorry,", "I", "encountered", "an", "error.", "Please", "try", "again", "or",
          "contact", "support", "if", "the", "issue", "persists.">>)
ImageFallbackText ==
  Words(<<"Thank", "you", "for", "the", "image.", "Let", "me", "analyze", "it", "and",
          "provide", "a", "solution.">>)
ImageErrorText ==
  Words(<<"Sorry,", "I", "had", "trouble", "processing", "your", "image.", "Please",
          "try", "uploading", "it", "again.">>)

\* `I selected: ${name}`
SelectedText(name) == <<"I", SP, "selected:", SP>> \o name

\* a || b on strings: the empty string is falsy
OrElse(a, b) == IF Len(a) > 0 THEN a ELSE b

(* ------------------------------ state --------------------------------- *)
VARIABLES
  service, userType,        \* location.state
  route,                    \* "chat", or "dashboard" after navigate('/dashboard')
  effectRun,                \* the mount effect has run
  conversationId,
  messages, currentInput, loading,
  categories, selectedCategory, subIssues, selectedSubIssue,
  showCategorySelection, showSubIssueSelection,
  selectedItems,            \* MissingItemsSelector state, per message index
  calls,                    \* every network call issued so far, pending or settled
  readers,                  \* FileReaders awaiting onloadend
  now,                      \* Date.now()
  probeText, probeOut,      \* a text handed to the render functions, and their results
  isPolling, pollingInterval, \* NotificationService: the polling flag and its timer
  thisUserType, thisUsername, \* NotificationService: the user polled for
  notificationCache,        \* NotificationService: cache key -> notifications
  fetches                   \* GET /notifications requests awaiting their response

probe   == <<probeText, probeOut>>
session == <<service, userType, route, effectRun, conversationId>>
chat    == <<messages, currentInput, loading>>
catalog == <<categories, selectedCategory, subIssues, selectedSubIssue,
             showCategorySelection, showSubIssueSelection>>
io      == <<calls, readers>>
notifier == <<isPolling, pollingInterval, thisUserType, thisUsername,
              notificationCache, fetches>>
vars    == <<notifier, probe, session, chat, catalog, selectedItems, io, now>>

\* a message object; absent optional fields are FALSE / empty;
\* call names the network call the message was created for (0: none)
Message(id, text, sender, ts, call) ==
  [id |-> id, text |-> text, sender |-> sender, timestamp |-> ts,
   showCategories |-> FALSE, showSubIssues |-> FALSE,
   requiresImage |-> FALSE, imageRequest |-> <<>>, call |-> call]

\* a request; fields names the properties the request carries
NoRequest ==
  [fields |-> {}, message |-> <<>>, service |-> "", user_type |-> "", username |-> "",
   conversation_id |-> <<>>, category |-> "", sub_issue |-> "", messages |-> <<>>,
   order_id |-> "", image_data |-> "", message_id |-> 0]

\* the calls awaiting their response
InFlight == {c \in 1..Len(calls) : calls[c].status = "pending"}

\* the name the next call gets
NewCall == Len(calls) + 1

\* a call goes out: kind is the endpoint, handler the function that awaits it,
\* via / widget the widget component (and its message) that triggered it, if any
Issue(kind, handler, via, widget, req) ==
  calls' = Append(calls, [kind |-> kind, handler |-> handler, via |-> via,
                          widget |-> widget, req |-> req,
                          status |-> "pending", reply |-> <<>>])

\* the response to call c arrives: resolved with reply, or rejected
Settle(c, ok, reply) ==
  calls' = [calls EXCEPT ![c].status = IF ok THEN "ok" ELSE "error",
                         ![c].reply  = IF ok THEN reply ELSE <<>>]

\* the longest history the exploration produces
MaxHistory == MaxMsgs + MaxInflight

\* every ChatBot render creates the widget components anew, so their state
\* starts over
NoSelection == [i \in 1..MaxHistory |-> <<>>]

\* the user acts only while the k messages the handler appends at once fit
\* into the explored history; responses arrive whatever its length
Room(k) == Len(messages) + k <= MaxMsgs

CanIssue == Cardinality(InFlight) + Len(readers) < MaxInflight

Live == route = "chat" /\ effectRun

\* the values Date.now() can return next
Clock == now..MaxClock

NoProbe == [done |-> FALSE, sender |-> "", missing |-> FALSE, dropdown |-> FALSE,
            items |-> <<>>, options |-> <<>>, textShown |-> FALSE, header |-> FALSE,
            missingWidget |-> FALSE, dropdownWidget |-> FALSE]

\* the component after construction, before its mount effect
Constructed ==
  /\ route = "chat"
  /\ effectRun = FALSE
  /\ now = 0
  /\ conversationId = NumToText(0)
  /\ messages = <<>>
  /\ currentInput = <<>>
  /\ loading = FALSE
  /\ categories = <<>>
  /\ selectedCategory = ""
  /\ subIssues = <<>>
  /\ selectedSubIssue = ""
  /\ showCategorySelection = TRUE
  /\ showSubIssueSelection = FALSE
  /\ selectedItems = NoSelection
  /\ calls = <<>>
  /\ readers = <<>>

\* the NotificationService singleton after its constructor
ServiceConstructed ==
  /\ isPolling = FALSE
  /\ pollingInterval = "null"
  /\ thisUserType = ""
  /\ thisUsername = ""
  /\ notificationCache = << >>
  /\ fetches = <<>>

Init ==
  /\ service \in Services
  /\ userType \in UserTypes
  /\ Constructed
  /\ ServiceConstructed
  /\ probeText = <<>>
  /\ probeOut = NoProbe

(* ------------------------------ bootstrap ----------------------------- *)
\* Mount without the return after navigate: the fetch goes out all the same
MountFetchAnyway ==
  /\ route = "chat" /\ ~effectRun
  /\ effectRun' = TRUE
  /\ route' = IF service = "" \/ userType = "" THEN "dashboard" ELSE route
  /\ Issue("categories", "fetchCategories", "", 0,
           [NoRequest EXCEPT !.fields = {"service", "user_type"},
                             !.service = service, !.user_type = userType])
  /\ UNCHANGED <<notifier, probe, service, userType, conversationId, chat, catalog, selectedItems,
                 readers, now>>

\* useEffect on mount: redirect without context, else fetchCategories
Mount ==
  /\ route = "chat" /\ ~effectRun
  /\ effectRun' = TRUE
  /\ IF service = "" \/ userType = ""
     THEN /\ route' = "dashboard"
          /\ UNCHANGED calls
     ELSE /\ route' = route
          /\ Issue("categories", "fetchCategories", "", 0,
                   [NoRequest EXCEPT !.fields = {"service", "user_type"},
                                     !.service = service, !.user_type = userType])
  /\ UNCHANGED <<notifier, probe, service, userType, conversationId, chat, catalog, selectedItems,
                 readers, now>>

\* FetchCategoriesDone with a greeting that lacks showCategories
FetchCategoriesDoneNoOffer(c, ok, cats, t) ==
  /\ Live /\ c \in InFlight /\ calls[c].kind = "categories"
  /\ Settle(c, ok, <<>>)
  /\ now' = t
  /\ IF ok
     THEN /\ categories' = cats
          /\ messages' = << Message(t, WelcomeText(service), "bot", t, c) >>
     ELSE /\ categories' = categories
          /\ messages' = << Message(t, CategoriesErrorText, "bot", t, c) >>
  /\ selectedItems' = NoSelection
  /\ UNCHANGED <<notifier, probe, session, currentInput, loading, selectedCategory, subIssues,
                 selectedSubIssue, showCategorySelection, showSubIssueSelection,
                 readers>>

\* fetchCategories after the await: the greeting, or the apology
FetchCategoriesDone(c, ok, cats, t) ==
  /\ Live /\ c \in InFlight /\ calls[c].kind = "categories"
  /\ Settle(c, ok, <<>>)
  /\ now' = t
  /\ IF ok
     THEN /\ categories' = cats
          /\ messages' = << [Message(t, WelcomeText(service), "bot", t, c)
                               EXCEPT !.showCategories = TRUE] >>
     ELSE /\ categories' = categories
          /\ messages' = << Message(t, CategoriesErrorText, "bot", t, c) >>
  /\ selectedItems' = NoSelection
  /\ UNCHANGED <<notifier, probe, session, currentInput, loading, selectedCategory, subIssues,
                 selectedSubIssue, showCategorySelection, showSubIssueSelection,
                 readers>>

(* -------------------------- category / sub-issue ---------------------- *)
CategoryButtonsShown ==
  \E i \in 1..Len(messages) : messages[i].showCategories /\ messages[i].sender = "bot"

SubIssueButtonsShown ==
  \E i \in 1..Len(messages) : messages[i].showSubIssues /\ messages[i].sender = "bot"

\* handleCategorySelect up to its await
HandleCategorySelect(cat, t) ==
  /\ Live /\ CategoryButtonsShown
  /\ \E k \in 1..Len(categories) : categories[k] = cat
  /\ CanIssue /\ Room(1)
  /\ now' = t
  /\ selectedCategory' = cat.id
  /\ messages' = Append(messages, Message(t, SelectedText(cat.name), "user", t, NewCall))
  /\ loading' = TRUE
  /\ Issue("subissues", "handleCategorySelect", "", 0,
           [NoRequest EXCEPT !.fields = {"service", "user_type", "category"},
                             !.service = service, !.user_type = userType,
                             !.category = cat.id])
  /\ selectedItems' = NoSelection
  /\ UNCHANGED <<notifier, probe, session, currentInput, categories, subIssues, selectedSubIssue,
                 showCategorySelection, showSubIssueSelection, readers>>

\* SubIssuesFailed with the history replaced, as fetchCategories' catch does
SubIssuesFailedReset(c, t) ==
  messages' = << Message(t + 1, SubIssuesErrorText, "bot", t, c) >>

\* a failed sub-issue fetch: the apology is appended to the history
SubIssuesFailed(c, t) ==
  messages' = Append(messages, Message(t + 1, SubIssuesErrorText, "bot", t, c))

\* CategorySelectDone without setSubIssues: the prompt offers the old list
CategorySelectDoneKeepList(c, ok, t) ==
  /\ Live /\ c \in InFlight /\ calls[c].kind = "subissues"
  /\ Settle(c, ok, <<>>)
  /\ now' = t
  /\ IF ok
     THEN /\ subIssues' = subIssues
          /\ messages' = Append(messages,
               [Message(t + 1, SubIssuesPromptText, "bot", t, c)
                  EXCEPT !.showSubIssues = TRUE])
          /\ showCategorySelection' = FALSE
          /\ showSubIssueSelection' = TRUE
     ELSE /\ SubIssuesFailed(c, t)
          /\ UNCHANGED <<subIssues, showCategorySelection, showSubIssueSelection>>
  /\ loading' = FALSE
  /\ selectedItems' = NoSelection
  /\ UNCHANGED <<notifier, probe, session, currentInput, categories, selectedCategory,
                 selectedSubIssue, readers>>

\* handleCategorySelect after the await
CategorySelectDone(c, ok, t) ==
  /\ Live /\ c \in InFlight /\ calls[c].kind = "subissues"
  /\ Settle(c, ok, <<>>)
  /\ now' = t
  /\ IF ok
     THEN /\ subIssues' = SubIssueCatalog(calls[c].req.category)
          /\ messages' = Append(messages,
               [Message(t + 1, SubIssuesPromptText, "bot", t, c)
                  EXCEPT !.showSubIssues = TRUE])
          /\ showCategorySelection' = FALSE
          /\ showSubIssueSelection' = TRUE
     ELSE /\ SubIssuesFailed(c, t)
          /\ UNCHANGED <<subIssues, showCategorySelection, showSubIssueSelection>>
  /\ loading' = FALSE
  /\ selectedItems' = NoSelection
  /\ UNCHANGED <<notifier, probe, session, currentInput, categories, selectedCategory,
                 selectedSubIssue, readers>>

\* handleSubIssueSelect: the missing-items sub-issue up to its await, any
\* other sub-issue to its end
HandleSubIssueSelect(sub, t1, t2) ==
  /\ Live /\ SubIssueButtonsShown
  /\ \E k \in 1..Len(subIssues) : subIssues[k] = sub
  /\ now' = t2
  /\ selectedSubIssue' = sub.id
  /\ selectedItems' = NoSelection
  /\ IF sub.id = MISSING_ITEMS_ID
     THEN /\ CanIssue /\ Room(1)
          /\ t1 = t2
          /\ messages' = Append(messages,
               Message(t1, SelectedText(sub.name), "user", t1, NewCall))
          /\ loading' = TRUE
          /\ Issue("missing-items", "handleSubIssueSelect", "", 0,
                   [NoRequest EXCEPT !.fields = {"message", "username", "order_id"},
                      !.message = MissingItemsRequestText,
                      !.username = username, !.order_id = orderId])
          /\ UNCHANGED showSubIssueSelection
     ELSE /\ Room(2)
          /\ messages' = messages \o
               << Message(t1, SelectedText(sub.name), "user", t1, 0),
                  Message(t2 + 1, DescribePromptText, "bot", t2, 0) >>
          /\ showSubIssueSelection' = FALSE
          /\ UNCHANGED <<loading, calls>>
  /\ UNCHANGED <<notifier, probe, session, currentInput, categories, selectedCategory, subIssues,
                 showCategorySelection, readers>>

\* MissingItemsResolved without its return: the default prompt follows the
\* response
MissingItemsResolvedFallThrough(c, resp, t) ==
  /\ messages' = messages \o
       << Message(t + 1, OrElse(resp, MissingFallbackText), "bot", t, c),
          Message(t + 1, DescribePromptText, "bot", t, c) >>
  /\ showSubIssueSelection' = FALSE
  /\ loading' = FALSE

\* POST /missing-items resolved: its response text is the next bot message
MissingItemsResolved(c, resp, t) ==
  /\ messages' = Append(messages,
       Message(t + 1, OrElse(resp, MissingFallbackText), "bot", t, c))
  /\ showSubIssueSelection' = FALSE
  /\ loading' = FALSE

\* MissingItemsRejected with an apology in the catch block and a return
MissingItemsRejectedApology(c, t) ==
  /\ loading' = FALSE
  /\ messages' = Append(messages, Message(t + 1, ChatErrorText, "bot", t, c))
  /\ showSubIssueSelection' = showSubIssueSelection

\* MissingItemsRejected without the catch block's setLoading(false)
MissingItemsRejectedLeak(c, t) ==
  /\ loading' = loading
  /\ messages' = Append(messages, Message(t + 1, DescribePromptText, "bot", t, c))
  /\ showSubIssueSelection' = FALSE

\* POST /missing-items rejected: the catch block, then the default prompt
MissingItemsRejected(c, t) ==
  /\ loading' = FALSE
  /\ messages' = Append(messages, Message(t + 1, DescribePromptText, "bot", t, c))
  /\ showSubIssueSelection' = FALSE

\* handleSubIssueSelect after the await of POST /missing-items
MissingItemsDone(c, ok, resp, t) ==
  /\ Live /\ c \in InFlight /\ calls[c].kind = "missing-items"
  /\ Settle(c, ok, resp)
  /\ now' = t
  /\ IF ok THEN MissingItemsResolved(c, resp, t) ELSE MissingItemsRejected(c, t)
  /\ selectedItems' = NoSelection
  /\ UNCHANGED <<notifier, probe, session, currentInput, categories, selectedCategory, subIssues,
                 selectedSubIssue, showCategorySelection, readers>>

(* ------------------------------ chat turns ---------------------------- *)
\* ChatRequest without the conversation id
ChatRequestNoConversation(messageText) ==
  [NoRequest EXCEPT
     !.fields = {"message", "service", "user_type", "username",
                 "category", "sub_issue", "messages", "order_id"},
     !.message = messageText, !.service = service, !.user_type = userType,
     !.username = username,
     !.category = selectedCategory, !.sub_issue = selectedSubIssue,
     !.messages = messages, !.order_id = orderId]

\* the request body of POST /chat; messages is the history of the last render,
\* which the user message of this very send is not yet part of
ChatRequest(messageText) ==
  [NoRequest EXCEPT
     !.fields = {"message", "service", "user_type", "username", "conversation_id",
                 "category", "sub_issue", "messages", "order_id"},
     !.message = messageText, !.service = service, !.user_type = userType,
     !.username = username, !.conversation_id = conversationId,
     !.category = selectedCategory, !.sub_issue = selectedSubIssue,
     !.messages = messages, !.order_id = orderId]

\* the text area is enabled
InputEnabled == ~(loading \/ selectedSubIssue = "")

\* textarea onChange: setCurrentInput
SetInput(text) ==
  /\ Live /\ InputEnabled /\ Room(1)
  /\ text # currentInput
  /\ currentInput' = text
  /\ selectedItems' = NoSelection
  /\ UNCHANGED <<notifier, probe, session, messages, loading, catalog, io, now>>

\* user message appended, sending flag set, POST /chat issued
IssueChat(messageText, handler, via, widget, t) ==
  /\ now' = t
  /\ messages' = Append(messages, Message(t, messageText, "user", t, NewCall))
  /\ loading' = TRUE
  /\ Issue("chat", handler, via, widget, ChatRequest(messageText))
  /\ selectedItems' = NoSelection

\* handleSendMessage up to its await (send button, or Enter in the text area)
HandleSendMessage ==
  /\ Live /\ InputEnabled
  /\ IF Trim(currentInput) = <<>> \/ loading \/ selectedSubIssue = ""
     THEN UNCHANGED vars
     ELSE /\ CanIssue /\ Room(1)
          /\ \E t \in Clock : IssueChat(Trim(currentInput), "handleSendMessage", "", 0, t)
          /\ currentInput' = <<>>
          /\ UNCHANGED <<notifier, probe, session, catalog, readers>>

\* HandleSendMessageDirect with a request of its own, without the sub-issue
HandleSendMessageDirectOwnRequest(messageText, via, i) ==
  IF loading
  THEN UNCHANGED vars
  ELSE /\ CanIssue /\ Room(1)
       /\ \E t \in Clock :
            /\ now' = t
            /\ messages' = Append(messages, Message(t, messageText, "user", t, NewCall))
            /\ loading' = TRUE
            /\ Issue("chat", "handleSendMessageDirect", via, i,
                     [ChatRequest(messageText) EXCEPT !.sub_issue = ""])
            /\ selectedItems' = NoSelection
       /\ UNCHANGED <<notifier, probe, session, currentInput, catalog, readers>>

\* HandleSendMessageDirect without its guard
HandleSendMessageDirectUnguarded(messageText, via, i) ==
  /\ CanIssue /\ Room(1)
  /\ \E t \in Clock : IssueChat(messageText, "handleSendMessageDirect", via, i, t)
  /\ UNCHANGED <<notifier, probe, session, currentInput, catalog, readers>>

\* handleSendMessageDirect up to its await, called by widget via of message i
HandleSendMessageDirect(messageText, via, i) ==
  IF loading
  THEN UNCHANGED vars
  ELSE /\ CanIssue /\ Room(1)
       /\ \E t \in Clock : IssueChat(messageText, "handleSendMessageDirect", via, i, t)
       /\ UNCHANGED <<notifier, probe, session, currentInput, catalog, readers>>

\* the bot message a settled POST /chat leaves: the reply, or the apology
ChatBotMessage(c, ok, resp, t) ==
  IF ok
  THEN [Message(t + 1, OrElse(resp.response, ChatFallbackText), "bot", t, c)
          EXCEPT !.requiresImage = resp.requires_image,
                 !.imageRequest = resp.image_request]
  ELSE Message(t + 1, ChatErrorText, "bot", t, c)

\* ChatReply with a catch block that only logs the error
ChatReplyNoApology(c, ok, resp, t) ==
  messages' = IF ok THEN Append(messages, ChatBotMessage(c, ok, resp, t)) ELSE messages

\* what the try / catch around POST /chat does to the history
ChatReply(c, ok, resp, t) ==
  messages' = Append(messages, ChatBotMessage(c, ok, resp, t))

\* handleSendMessage / handleSendMessageDirect after the await
ChatDone(c, ok, resp, t) ==
  /\ Live /\ c \in InFlight /\ calls[c].kind = "chat"
  /\ Settle(c, ok, resp.response)
  /\ now' = t
  /\ ChatReply(c, ok, resp, t)
  /\ loading' = FALSE
  /\ selectedItems' = NoSelection
  /\ UNCHANGED <<notifier, probe, session, currentInput, catalog, readers>>

(* ------------------------------- widgets ------------------------------ *)
\* every text a bot message of the model can carry
BotTexts ==
  {WelcomeText(svc) : svc \in Services}
    \cup {CategoriesErrorText, SubIssuesPromptText, SubIssuesErrorText,
          DescribePromptText, ChatErrorText, ImageErrorText}
    \cup {OrElse(r.response, ChatFallbackText) : r \in ChatResponses}
    \cup {OrElse(r, MissingFallbackText) : r \in MissingItemsResponses}
    \cup {OrElse(r, ImageFallbackText) : r \in ImageResponses}

\* what a render computes from a message text: both predicates and both
\* extractions
Render(text) ==
  [done     |-> TRUE,
   missing  |-> isMissingItemsSelection(text),
   items    |-> parseMissingItemsOptions(text),
   dropdown |-> isGrabCabsDropdownSelection(text),
   options  |-> parseGrabCabsDropdownOptions(text)]

\* Render, tabulated once for every bot text (a pure function of the text)
RenderOf == [text \in BotTexts |-> Render(text)]

\* MissingItemsSelector renders something for message i
MissingItemsWidgetShown(i) ==
  /\ messages[i].sender = "bot"
  /\ RenderOf[messages[i].text].missing
  /\ Len(RenderOf[messages[i].text].items) > 0

\* GrabCabsDropdownSelector renders something for message i
DropdownWidgetShown(i) ==
  /\ messages[i].sender = "bot"
  /\ RenderOf[messages[i].text].dropdown
  /\ Len(RenderOf[messages[i].text].options) > 0

RECURSIVE WithoutNumber(_, _)
\* prev.filter(selected => selected.number !== number)
WithoutNumber(sel, number) ==
  IF Len(sel) = 0 THEN <<>>
  ELSE (IF sel[1].number # number THEN <<sel[1]>> ELSE <<>>)
         \o WithoutNumber(Tail(sel), number)

\* toggleItemSelection that tells the selected items apart by number and name
toggleItemSelectionByItem(items, sel, itemIndex) ==
  LET item       == items[itemIndex]
      isSelected == \E k \in 1..Len(sel) : sel[k] = item
  IN  IF isSelected THEN SelectSeq(sel, LAMBDA s : s # item)
                    ELSE Append(sel, item)

\* toggleItemSelection(itemIndex): the selection it leaves, given the
\* widget's items and the selection before
toggleItemSelection(items, sel, itemIndex) ==
  LET item       == items[itemIndex]
      isSelected == \E k \in 1..Len(sel) : sel[k].number = item.number
  IN  IF isSelected THEN WithoutNumber(sel, item.number)
                    ELSE Append(sel, item)

\* a click on an item of the widget of message i
ToggleItemSelection(i) ==
  /\ Live /\ MissingItemsWidgetShown(i) /\ Room(1)
  /\ LET items == RenderOf[messages[i].text].items
     IN  \E itemIndex \in 1..Len(items) :
           selectedItems' =
             [selectedItems EXCEPT ![i] =
                toggleItemSelection(items, selectedItems[i], itemIndex)]
  /\ UNCHANGED <<notifier, probe, session, chat, catalog, io, now>>

\* the Clear Selection button of the widget of message i
ClearSelection(i) ==
  /\ Live /\ Len(selectedItems[i]) > 0
  /\ MissingItemsWidgetShown(i) /\ Room(1)
  /\ selectedItems' = [selectedItems EXCEPT ![i] = <<>>]
  /\ UNCHANGED <<notifier, probe, session, chat, catalog, io, now>>

\* handleItemSelection: the synthesized text goes to handleSendMessageDirect
handleItemSelection(items, selected, i) ==
  HandleSendMessageDirect(SelectionText(selected), "MissingItemsSelector", i)

\* submitSelection of the widget of message i
SubmitSelection(i) ==
  /\ Live /\ MissingItemsWidgetShown(i)
  /\ handleItemSelection(RenderOf[messages[i].text].items, selectedItems[i], i)

\* DropdownSubmit sending the option line as it stands in the text
DropdownSubmitRawLine(i) ==
  /\ Live /\ DropdownWidgetShown(i)
  /\ LET options == RenderOf[messages[i].text].options
     IN  \E k \in 1..Len(options) :
           HandleSendMessageDirect(<<"CHECKBOX", SP>> \o options[k],
                                   "GrabCabsDropdownSelector", i)

\* a dropdown option button: submitSelection(option) -> handleSendMessageDirect
DropdownSubmit(i) ==
  /\ Live /\ DropdownWidgetShown(i)
  /\ LET options == RenderOf[messages[i].text].options
     IN  \E k \in 1..Len(options) :
           HandleSendMessageDirect(options[k], "GrabCabsDropdownSelector", i)

(* ---------------------------- image upload ---------------------------- *)
\* handleImageUpload: the file input of message i starts a FileReader
HandleImageUpload(i, file) ==
  /\ Live
  /\ messages[i].requiresImage /\ messages[i].sender = "bot"
  /\ CanIssue /\ Room(0)
  /\ readers' = Append(readers, [message_id |-> messages[i].id, file |-> file])
  /\ UNCHANGED <<notifier, probe, session, chat, catalog, selectedItems, calls, now>>

\* the request body of POST /chat/image
ImageRequest(base64String, messageId) ==
  [NoRequest EXCEPT
     !.fields = {"image_data", "service", "user_type", "username",
                 "conversation_id", "message_id"},
     !.image_data = base64String, !.service = service, !.user_type = userType,
     !.username = username, !.conversation_id = conversationId,
     !.message_id = messageId]

\* reader.onloadend up to its await; without a result the split throws
ReaderLoadEnd(k, ok) ==
  /\ Live
  /\ readers' = SubSeq(readers, 1, k - 1) \o SubSeq(readers, k + 1, Len(readers))
  /\ IF ok
     THEN LET base64String == DataUrl(readers[k].file)[3]
          IN  /\ loading' = TRUE
              /\ Issue("image", "handleImageUpload", "", 0,
                       ImageRequest(base64String, readers[k].message_id))
              /\ selectedItems' = NoSelection
     ELSE UNCHANGED <<loading, calls, selectedItems>>
  /\ UNCHANGED <<notifier, probe, session, messages, currentInput, catalog, now>>

\* reader.onloadend after the await of POST /chat/image
ImageDone(c, ok, resp, t) ==
  /\ Live /\ c \in InFlight /\ calls[c].kind = "image"
  /\ Settle(c, ok, resp)
  /\ now' = t
  /\ messages' = Append(messages,
       IF ok THEN Message(t, OrElse(resp, ImageFallbackText), "bot", t, c)
             ELSE Message(t, ImageErrorText, "bot", t, c))
  /\ loading' = FALSE
  /\ selectedItems' = NoSelection
  /\ UNCHANGED <<notifier, probe, session, currentInput, catalog, readers>>

(* --------------------------- specification ---------------------------- *)
\* a network call completes, with a response or with an error
Complete ==
  \E c \in InFlight, ok \in BOOLEAN, t \in Clock :
    \/ \E cats \in CategoryResponses : FetchCategoriesDone(c, ok, cats, t)
    \/ CategorySelectDone(c, ok, t)
    \/ \E resp \in MissingItemsResponses : MissingItemsDone(c, ok, resp, t)
    \/ \E resp \in ChatResponses : ChatDone(c, ok, resp, t)
    \/ \E resp \in ImageResponses : ImageDone(c, ok, resp, t)

\* the user acts
UserAction ==
  \/ \E k \in 1..Len(categories), t \in Clock : HandleCategorySelect(categories[k], t)
  \/ \E k \in 1..Len(subIssues), t1 \in Clock :
       \E t2 \in t1..MaxClock : HandleSubIssueSelect(subIssues[k], t1, t2)
  \/ \E text \in Inputs : SetInput(text)
  \/ HandleSendMessage
  \/ \E i \in 1..Len(messages) : ToggleItemSelection(i)
  \/ \E i \in 1..Len(messages) : ClearSelection(i)
  \/ \E i \in 1..Len(messages) : SubmitSelection(i)
  \/ \E i \in 1..Len(messages) : DropdownSubmit(i)
  \/ \E i \in 1..Len(messages), file \in Files : HandleImageUpload(i, file)

Next ==
  \/ Mount
  \/ UserAction
  \/ Complete
  \/ \E k \in 1..Len(readers), ok \in BOOLEAN : ReaderLoadEnd(k, ok)

Spec == Init /\ [][Next]_vars

\* every settled call gets its response in the end
FairSpec == Spec /\ WF_vars(Complete)

(* ------------------------- rendering one text ------------------------- *)
\* lines a bot text can be made of
LineFragments ==
  { MissingHeader1,
    MissingHeader2,
    <<"1", ".", SP, "Coke">>,
    <<"CHECKBOX", SP, "2", ".", SP, "Fries">>,
    <<"3", ".", SP, "Nuggets">>,
    Words(<<"Some", "items", "are", "missing">>),
    DdSelectHarassment,
    DdSelectPolicy,
    DdAppBooking,
    DdCancellation,
    <<"CHECKBOX", SP, "Rude", SP, "behavior">>,
    <<"Thanks">> }

\* the texts of one to MaxFrags lines
ProbeTexts ==
  UNION { {Flatten(Join(f, << <<NL>> >>)) : f \in [1..n -> LineFragments]} :
          n \in 1..MaxFrags }

\* names a catalog entry can have: those of the taxonomy above, and any line
CatalogNames ==
  {CategoryCatalog[k].name : k \in 1..Len(CategoryCatalog)}
    \cup UNION { {SubIssueCatalog(CategoryCatalog[k].id)[j].name :
                    j \in 1..Len(SubIssueCatalog(CategoryCatalog[k].id))} :
                 k \in 1..Len(CategoryCatalog) }
    \cup LineFragments

\* the echo messages of a category or sub-issue selection
EchoTexts == {SelectedText(name) : name \in CatalogNames}

Senders == {"user", "bot"}

\* what the render shows of one message: its text, the missing-items header,
\* the widgets
RenderMessage(sender, text) ==
  LET r == Render(text)
  IN  [done |-> TRUE, sender |-> sender,
       missing |-> r.missing, items |-> r.items,
       dropdown |-> r.dropdown, options |-> r.options,
       textShown |-> ~r.missing /\ ~r.dropdown,
       header |-> r.missing,
       missingWidget |-> sender = "bot" /\ r.missing /\ Len(r.items) > 0,
       dropdownWidget |-> sender = "bot" /\ r.dropdown /\ Len(r.options) > 0]

\* a render of one message with an arbitrary text
RenderInit ==
  /\ service = "grab_food"
  /\ userType = "customer"
  /\ Constructed
  /\ ServiceConstructed
  /\ probeText \in ProbeTexts \cup EchoTexts
  /\ probeOut = NoProbe

\* the message's part of the render: both predicates, both extractions, and
\* what is shown; a selection echo is a user message
RenderProbe ==
  /\ ~probeOut.done
  /\ \E sender \in Senders :
       /\ probeText \in EchoTexts => sender = "user"
       /\ probeOut' = RenderMessage(sender, probeText)
  /\ UNCHANGED <<notifier, probeText, session, chat, catalog, selectedItems, io, now>>

RenderNext == RenderProbe

RenderSpec == RenderInit /\ [][RenderNext]_vars

(* ------------------- the missing-items widget alone ------------------- *)
\* the longest text handed to the widget, in lines
MaxItemLines == 3

\* lines of a missing-items prompt: two of them carry the same number
ItemFragments ==
  { MissingHeader1,
    <<"1", ".", SP, "Coke">>,
    <<"CHECKBOX", SP, "2", ".", SP, "Fries">>,
    <<"CHECKBOX", SP, "1", ".", SP, "Pepsi">>,
    <<"Thanks">> }

WidgetTexts ==
  UNION { {Flatten(Join(f, << <<NL>> >>)) : f \in [1..n -> ItemFragments]} :
          n \in 1..MaxItemLines }

\* a MissingItemsSelector about to be mounted on a message with some text
WidgetInit ==
  /\ service = "grab_food"
  /\ userType = "customer"
  /\ Constructed
  /\ ServiceConstructed
  /\ probeText \in WidgetTexts
  /\ probeOut = NoProbe

\* the widget's effect: isMissingItemsSelection and parseMissingItemsOptions
\* on the text of its bot message
WidgetMount ==
  /\ ~probeOut.done
  /\ probeOut' = RenderMessage("bot", probeText)
  /\ UNCHANGED <<notifier, probeText, session, chat, catalog, selectedItems, io, now>>

\* a click on an item of the mounted widget
WidgetToggle ==
  /\ probeOut.done /\ probeOut.missingWidget
  /\ \E itemIndex \in 1..Len(probeOut.items) :
       selectedItems' =
         [selectedItems EXCEPT ![1] =
            toggleItemSelection(probeOut.items, selectedItems[1], itemIndex)]
  /\ UNCHANGED <<notifier, probe, session, chat, catalog, io, now>>

\* the Clear Selection button of the mounted widget
WidgetClear ==
  /\ probeOut.done /\ probeOut.missingWidget
  /\ Len(selectedItems[1]) > 0
  /\ selectedItems' = [selectedItems EXCEPT ![1] = <<>>]
  /\ UNCHANGED <<notifier, probe, session, chat, catalog, io, now>>

WidgetNext == WidgetMount \/ WidgetToggle \/ WidgetClear

WidgetSpec == WidgetInit /\ [][WidgetNext]_vars

(* ---------------------- the extractors on any text -------------------- *)
\* lines as a reply can hold them: option lines in their regular form, with
\* blanks around them, with words before the glyph, without a label, without
\* the blank after the glyph
OptionFragments ==
  { MissingHeader1,
    DdSelectHarassment,
    <<"1", ".", SP, "Coke">>,
    <<"CHECKBOX", SP, "2", ".", SP, "Fries", SP>>,
    <<SP, SP, "3", ".", SP, "Nuggets">>,
    <<"Tick", SP, "CHECKBOX", SP, "4", ".", SP, "Cola">>,
    <<"CHECKBOX", SP, "5", ".", SP>>,
    <<SP, "CHECKBOX", SP, "Rude", SP, "behavior", SP>>,
    <<"CHECKBOX", "Unsafe", SP, "driving">>,
    <<"Thanks">> }

OptionTexts ==
  UNION { {Flatten(Join(f, << <<NL>> >>)) : f \in [1..n -> OptionFragments]} :
          n \in 1..MaxFrags }

\* a render of one message whose text is made of such lines
ExtractInit ==
  /\ service = "grab_food"
  /\ userType = "customer"
  /\ Constructed
  /\ ServiceConstructed
  /\ probeText \in OptionTexts
  /\ probeOut = NoProbe

ExtractSpec == ExtractInit /\ [][RenderNext]_vars

(* ----------------------- the notification service --------------------- *)
\* the most GET /notifications requests in flight at once
MaxFetches == 2

\* the users a NotificationCenter polls for
PolledUsers ==
  { [userType |-> "customer", username |-> "alice"],
    [userType |-> "agent",    username |-> "bob"] }

\* `${userType}_${username}`
CacheKey(ut, un) == <<ut, "_", un>>

\* a notification of the server; user names the user it was stored for
Notification(id, ut, un) == [id |-> id, user |-> CacheKey(ut, un), is_read |-> FALSE]

\* what GET /notifications/${ut}/${un} can answer: notifications of that user
NotificationResponses(ut, un) ==
  IF un = "alice"
  THEN { <<>>, << Notification(1, ut, un) >>,
         << Notification(1, ut, un), Notification(2, ut, un) >> }
  ELSE { <<>>, << Notification(3, ut, un) >> }

\* notificationCache.get(key) || []
CacheGet(key) ==
  IF key \in DOMAIN notificationCache THEN notificationCache[key] ELSE <<>>

\* notificationCache.set(key, value)
CacheSet(key, value) ==
  [k \in DOMAIN notificationCache \cup {key} |->
     IF k = key THEN value ELSE notificationCache[k]]

\* getNewNotifications: those whose id the cache entry of the user polled
\* for now does not hold
getNewNotifications(currentNotifications) ==
  LET cached == CacheGet(CacheKey(thisUserType, thisUsername))
  IN  SelectSeq(currentNotifications,
                LAMBDA current : ~\E k \in 1..Len(cached) : cached[k].id = current.id)

\* updateNotificationCache: the key is built from the user polled for now
updateNotificationCache(notifications) ==
  CacheSet(CacheKey(thisUserType, thisUsername), notifications)

\* fetchNotifications up to its await, for the user ut / un: the requests in
\* flight afterwards
fetchNotifications(ut, un) ==
  IF ut = "" \/ un = "" THEN fetches
  ELSE Append(fetches, [userType |-> ut, username |-> un])

\* startPolling(userType, username): stops a running poll, takes the user,
\* fetches at once and arms the timer
StartPolling(ut, un) ==
  /\ Len(fetches) < MaxFetches
  /\ isPolling' = TRUE
  /\ thisUserType' = ut
  /\ thisUsername' = un
  /\ fetches' = fetchNotifications(ut, un)
  /\ pollingInterval' = "interval"
  /\ UNCHANGED <<notificationCache, probe, session, chat, catalog, selectedItems, io, now>>

\* stopPolling
StopPolling ==
  /\ isPolling \/ pollingInterval # "null"
  /\ pollingInterval' = "null"
  /\ isPolling' = FALSE
  /\ UNCHANGED <<thisUserType, thisUsername, notificationCache, fetches,
                 probe, session, chat, catalog, selectedItems, io, now>>

\* the interval callback
PollTick ==
  /\ pollingInterval = "interval"
  /\ isPolling
  /\ Len(fetches) < MaxFetches
  /\ fetches' = fetchNotifications(thisUserType, thisUsername)
  /\ UNCHANGED <<isPolling, pollingInterval, thisUserType, thisUsername,
                 notificationCache, probe, session, chat, catalog, selectedItems,
                 io, now>>

\* fetchNotifications after its await: the response to request k, or its error
FetchNotificationsDone(k, ok, notifications) ==
  /\ k \in 1..Len(fetches)
  /\ fetches' = SubSeq(fetches, 1, k - 1) \o SubSeq(fetches, k + 1, Len(fetches))
  /\ IF ok /\ Len(getNewNotifications(notifications)) > 0
     THEN notificationCache' = updateNotificationCache(notifications)
     ELSE notificationCache' = notificationCache
  /\ UNCHANGED <<isPolling, pollingInterval, thisUserType, thisUsername,
                 probe, session, chat, catalog, selectedItems, io, now>>

\* a ChatBot is not part of this exploration
ServiceInit ==
  /\ service = "grab_food"
  /\ userType = "customer"
  /\ Constructed
  /\ ServiceConstructed
  /\ probeText = <<>>
  /\ probeOut = NoProbe

ServiceNext ==
  \/ \E u \in PolledUsers : StartPolling(u.userType, u.username)
  \/ StopPolling
  \/ PollTick
  \/ \E k \in 1..Len(fetches), ok \in BOOLEAN :
       \E notifications \in NotificationResponses(fetches[k].userType, fetches[k].username) :
         FetchNotificationsDone(k, ok, notifications)

ServiceSpec == ServiceInit /\ [][ServiceNext]_vars

(* ------------------------------ claims -------------------------------- *)
\* the calls a conversation turn consists of
TurnKinds == {"chat", "image", "missing-items"}

\* the calls issued by the step at hand
NewCalls == (Len(calls) + 1)..Len(calls')

\* C1: at most one chat, image or missing-items call is in flight at any time.
C1_SingleInFlight ==
  Cardinality({c \in InFlight : calls[c].kind \in TurnKinds}) <= 1

\* C2: the completion of a chat, image or missing-items call clears the
\* sending flag, on success and on failure; and with every call returning,
\* loading = TRUE leads to loading = FALSE.
C2_GuardReleased ==
  /\ [][\A c \in 1..Len(calls) :
          (/\ calls[c].kind \in TurnKinds
           /\ calls[c].status = "pending"
           /\ calls'[c].status # "pending") => ~loading']_vars
  /\ (loading ~> ~loading)

\* a missing-items call has failed, a chat call has later failed too, and the
\* flag is clear
C2_Witness ==
  /\ ~loading
  /\ \E c \in 1..Len(calls) : calls[c].kind = "missing-items" /\ calls[c].status = "error"
  /\ \E c \in 1..Len(calls) : calls[c].kind = "chat" /\ calls[c].status = "error"

\* the positions of the messages of sender s created for call c
MessagesOf(c, s) ==
  {i \in 1..Len(messages) : messages[i].call = c /\ messages[i].sender = s}

\* C3: every accepted send has exactly one user message, appended when the
\* call is issued and carrying the sent text, and, once the call has settled,
\* exactly one bot message after it: the reply on success (the fallback text
\* standing in for an empty reply), the apology on failure.
C3_OneUserOneBot ==
  \A c \in 1..Len(calls) :
    calls[c].kind = "chat" =>
      LET users == MessagesOf(c, "user")
          bots  == MessagesOf(c, "bot")
      IN  /\ Cardinality(users) = 1
          /\ \A u \in users : messages[u].text = calls[c].req.message
          /\ Cardinality(bots) = IF calls[c].status = "pending" THEN 0 ELSE 1
          /\ \A u \in users, b \in bots : u < b
          /\ \A b \in bots :
               messages[b].text =
                 IF calls[c].status = "error" THEN ChatErrorText
                 ELSE IF calls[c].reply # <<>> THEN calls[c].reply
                 ELSE ChatFallbackText

\* a send has failed and its apology is the last message of the history
C3_Witness ==
  /\ Len(messages) > 0
  /\ messages[Len(messages)].text = ChatErrorText
  /\ \E c \in 1..Len(calls) : calls[c].kind = "chat" /\ calls[c].status = "error"

\* C4: every step leaves the old history a prefix of the new one.
C4_AppendOnly ==
  [][/\ Len(messages) <= Len(messages')
     /\ SubSeq(messages', 1, Len(messages)) = messages]_vars

\* a sub-issue fetch and a chat call have failed, and the history is still there
C4_Witness ==
  /\ Len(messages) >= 5
  /\ \E c \in 1..Len(calls) : calls[c].kind = "subissues" /\ calls[c].status = "error"
  /\ \E c \in 1..Len(calls) : calls[c].kind = "chat" /\ calls[c].status = "error"

\* C5: the user message of a send is followed directly by the bot message
\* answering the same call (and is the last message while the call is pending).
C5_CallAndResponse ==
  \A i \in 1..Len(messages) :
    LET m == messages[i]
    IN  (m.sender = "user" /\ m.call > 0 /\ calls[m.call].kind = "chat") =>
          IF i = Len(messages) THEN calls[m.call].status = "pending"
          ELSE messages[i + 1].sender = "bot" /\ messages[i + 1].call = m.call

\* C6 as claimed: every chat and image request carries the conversation id,
\* the selected category and sub-issue, and the full history at the time of
\* the call.
C6_RequestCarriesContext ==
  [][\A c \in NewCalls :
       calls'[c].kind \in {"chat", "image"} =>
         LET r == calls'[c].req
         IN  /\ {"conversation_id", "category", "sub_issue", "messages"} \subseteq r.fields
             /\ r.conversation_id = conversationId
             /\ r.category = selectedCategory'
             /\ r.sub_issue = selectedSubIssue'
             /\ r.messages = messages']_vars

\* C6, amended: a chat request (manual or direct send) carries the
\* conversation id, the selected category and sub-issue, and the history as
\* it stood before this send's own user message was appended; an image
\* request carries the conversation id and the target message id, and
\* neither category, sub-issue nor history.
C6_RequestContextAmended ==
  [][\A c \in NewCalls :
       LET r == calls'[c].req
       IN  /\ calls'[c].kind = "chat" =>
                /\ {"conversation_id", "category", "sub_issue", "messages"} \subseteq r.fields
                /\ r.conversation_id = conversationId
                /\ r.category = selectedCategory'
                /\ r.sub_issue = selectedSubIssue'
                /\ r.messages = messages
                /\ Len(messages') = Len(messages) + 1
                /\ messages'[Len(messages')].text = r.message
           /\ calls'[c].kind = "image" =>
                /\ {"conversation_id", "message_id"} \subseteq r.fields
                /\ r.conversation_id = conversationId
                /\ r.fields \cap {"category", "sub_issue", "messages"} = {}]_vars

\* a send from a widget has been issued and answered, and an image call
\* has been issued after it
C6_Witness ==
  /\ \E c \in 1..Len(calls) : calls[c].handler = "handleSendMessageDirect"
  /\ \E c \in 1..Len(calls) : calls[c].kind = "image"

\* C7: no two messages of the history have the same id.
C7_UniqueIds ==
  \A i, j \in 1..Len(messages) : i # j => messages[i].id # messages[j].id

\* the items of the option list whose number is selected, in option order
InOptionOrder(items, selected) ==
  SelectSeq(items, LAMBDA item :
    \E k \in 1..Len(selected) : selected[k].number = item.number)

\* C8: the text a missing-items widget sends lists the selected numbers and
\* labels in the order of the option list, whatever the click order was.
C8_OptionOrderText ==
  [][\A c \in NewCalls :
       calls'[c].via = "MissingItemsSelector" =>
         LET i == calls'[c].widget
         IN  calls'[c].req.message =
               SelectionText(InOptionOrder(RenderOf[messages[i].text].items,
                                           selectedItems[i]))]_vars

\* C9: the missing-items predicate and the dropdown predicate are never both
\* true of one text, so no bot message gets both widgets.
C9_PredicatesExclusive ==
  probeOut.done => ~(probeOut.missing /\ probeOut.dropdown)

\* some line of text is a numbered-list line  <number>. <label>
HasNumberedLine(text) ==
  \E k \in 1..Len(SplitLines(text)) : NumberedAt(SplitLines(text)[k], 1)

\* the numbers of the list items of text, bare or behind a checkbox
ListNumbers(text) ==
  {parseMissingItemsOptions(text)[k].number :
     k \in 1..Len(parseMissingItemsOptions(text))}

\* the five phrases that rule a text out
ExclusionPhrases ==
  {ExclHarassmentReport, ExclSelectHarassment, ExclSelectIssue,
   ExclAirportBooking, ExclCancellation}

NoExclusionPhrase(text) == \A p \in ExclusionPhrases : ~Includes(text, p)

HasHeaderPhrase(text) == Includes(text, MissingHeader1) \/ Includes(text, MissingHeader2)

C11_EmptyExtractionShowsText ==
  (/\ probeOut.done /\ probeOut.sender = "bot"
   /\ \/ probeOut.missing /\ probeOut.items = <<>>
      \/ probeOut.dropdown /\ probeOut.options = <<>>)
    => /\ probeOut.missing /\ probeOut.items = <<>> => ~probeOut.missingWidget
       /\ probeOut.dropdown /\ probeOut.options = <<>> => ~probeOut.dropdownWidget
       /\ probeOut.textShown

\* no manual send can be accepted now or later: the text area needs a
\* selected sub-issue, which needs a sub-issue button, which needs a category
\* button, and after the mount effect no catalog is loaded or on its way
NoSendEver ==
  /\ effectRun
  /\ selectedSubIssue = ""
  /\ categories = <<>>
  /\ subIssues = <<>>
  /\ \A c \in InFlight : calls[c].kind \notin {"categories", "subissues"}

\* NoSendEver, once true, stays true
NoSendEverIsStable == [][NoSendEver => NoSendEver']_vars

\* C12: no failure is fatal: a state that follows a failed call is never one
\* from which no manual send can be accepted any more.
C12_FailureNotFatal ==
  (\E c \in 1..Len(calls) : calls[c].status = "error") => ~NoSendEver

RECURSIVE CommaList(_)
\* the texts of ts separated by a comma and a space
CommaList(ts) ==
  IF Len(ts) = 1 THEN ts[1] ELSE ts[1] \o <<",", SP>> \o CommaList(Tail(ts))

\* the text the claim prescribes for a selection
PrescribedText(sel) ==
  IF Len(sel) = 0 THEN <<"All", SP, "items", SP, "are", SP, "present">>
  ELSE IF Len(sel) = 1
  THEN <<"Item", SP>> \o NumToText(sel[1].number)
         \o <<SP, "is", SP, "missing", ":", SP>> \o sel[1].name
  ELSE <<"Items", SP>> \o CommaList([k \in 1..Len(sel) |-> NumToText(sel[k].number)])
         \o <<SP, "are", SP, "missing", ":", SP>>
         \o CommaList([k \in 1..Len(sel) |-> sel[k].name])

\* C13: a submit of the missing-items widget that sends, sends "All items are
\* present" for an empty selection, "Item <n> is missing: <label>" for one
\* item and "Items <n1>, <n2> are missing: <label1>, <label2>" for several,
\* as the request text and as the text of the user message appended.
C13_SynthesizedText ==
  [][\A c \in NewCalls :
       calls'[c].via = "MissingItemsSelector" =>
         LET text == PrescribedText(selectedItems[calls'[c].widget])
         IN  /\ calls'[c].req.message = text
             /\ messages' = Append(messages, messages'[Len(messages')])
             /\ messages'[Len(messages')].sender = "user"
             /\ messages'[Len(messages')].text = text]_vars

\* a submit with several items selected has been sent
C13_Witness ==
  \E c \in 1..Len(calls) :
    /\ calls[c].via = "MissingItemsSelector"
    /\ calls[c].req.message[1] = "Items"

\* C14: a click on a dropdown option that is not rejected sends at once one
\* message: the sending flag was clear, one user message with exactly the
\* option's extracted label is appended and one chat call with that label as
\* its message is issued, in the same step.
C14_DropdownClickSends ==
  [][\A c \in NewCalls :
       calls'[c].via = "GrabCabsDropdownSelector" =>
         LET options == parseGrabCabsDropdownOptions(messages[calls'[c].widget].text)
             label   == calls'[c].req.message
         IN  /\ ~loading /\ loading'
             /\ Len(calls') = Len(calls) + 1
             /\ calls'[c].kind = "chat"
             /\ \E k \in 1..Len(options) : options[k] = label
             /\ messages' = Append(messages, messages'[Len(messages')])
             /\ messages'[Len(messages')].sender = "user"
             /\ messages'[Len(messages')].text = label]_vars

\* the second option of a dropdown has been clicked and sent
C14_Witness ==
  \E c \in 1..Len(calls) :
    /\ calls[c].via = "GrabCabsDropdownSelector"
    /\ calls[c].req.message = <<"Unsafe", SP, "driving">>

\* C15: a send attempted while the sending flag is set is rejected and not
\* queued: no step that starts with loading = TRUE issues a chat call or
\* appends the user message of a send, so every chat call goes out in the
\* step of an attempt made with loading = FALSE; the rejected attempt itself
\* changes nothing.
C15_RejectedWhileLoading ==
  [][loading =>
       /\ \A c \in NewCalls : calls'[c].kind # "chat"
       /\ \A i \in (Len(messages) + 1)..Len(messages') :
            messages'[i].call = 0 \/ calls'[messages'[i].call].kind # "chat"
              \/ messages'[i].sender = "bot"]_vars

\* the sending flag is set while a widget offers its buttons and room is left
\* for a send
C15_Witness ==
  /\ loading /\ Live /\ CanIssue /\ Room(1)
  /\ \E i \in 1..Len(messages) : DropdownWidgetShown(i) \/ MissingItemsWidgetShown(i)

\* C16: manual send and direct send are one pipeline: whichever handler
\* issues a chat call, the user message appended and the request are the same
\* function of the session state and the text, the sending flag is set in the
\* step that issues the call and cleared in the step that settles it, and the
\* bot message appended then is the reply (or the fallback text) on success
\* and the apology on failure.
C16_SamePipeline ==
  [][/\ \A c \in NewCalls :
          calls'[c].kind = "chat" =>
            LET text == calls'[c].req.message
            IN  /\ calls'[c].handler \in {"handleSendMessage", "handleSendMessageDirect"}
                /\ calls'[c].req =
                     [fields |-> {"message", "service", "user_type", "username",
                                  "conversation_id", "category", "sub_issue",
                                  "messages", "order_id"},
                      message |-> text, service |-> service, user_type |-> userType,
                      username |-> username, conversation_id |-> conversationId,
                      category |-> selectedCategory, sub_issue |-> selectedSubIssue,
                      messages |-> messages, order_id |-> orderId,
                      image_data |-> "", message_id |-> 0]
                /\ messages' = Append(messages, Message(now', text, "user", now', c))
                /\ ~loading /\ loading'
     /\ \A c \in 1..Len(calls) :
          (/\ calls[c].kind = "chat"
           /\ calls[c].status = "pending"
           /\ calls'[c].status # "pending") =>
            LET m == messages'[Len(messages')]
            IN  /\ messages' = Append(messages, m)
                /\ ~loading'
                /\ m.sender = "bot" /\ m.id = now' + 1 /\ m.call = c
                /\ m.text = IF calls'[c].status = "error" THEN ChatErrorText
                            ELSE OrElse(calls'[c].reply, ChatFallbackText)]_vars

\* a send from a widget has failed and has got its apology
C16_Witness ==
  \E c \in 1..Len(calls) :
    /\ calls[c].handler = "handleSendMessageDirect"
    /\ calls[c].status = "error"
    /\ \E i \in 1..Len(messages) :
         messages[i].call = c /\ messages[i].text = ChatErrorText

\* the texts of the apology messages
ApologyTexts ==
  {CategoriesErrorText, SubIssuesErrorText, ChatErrorText, ImageErrorText,
   MissingFallbackText, ChatFallbackText}

\* C17: a failed missing-items call ends the sub-issue selection with the
\* generic prompt: the step that settles it appends exactly one bot message,
\* the generic issue-description prompt, clears the sending flag and leaves
\* the sub-issue selected, so that the text area is enabled; and the messages
\* of such a call are always its user echo and, after it, that one prompt,
\* never an apology.
C17_MissingItemsFallback ==
  /\ [][\A c \in 1..Len(calls) :
          (/\ calls[c].kind = "missing-items"
           /\ calls[c].status = "pending"
           /\ calls'[c].status = "error") =>
            LET m == messages'[Len(messages')]
            IN  /\ messages' = Append(messages, m)
                /\ m.sender = "bot" /\ m.text = DescribePromptText /\ m.call = c
                /\ ~loading'
                /\ selectedSubIssue' = selectedSubIssue /\ selectedSubIssue' # ""]_vars
  /\ [](\A c \in 1..Len(calls) :
          (calls[c].kind = "missing-items" /\ calls[c].status = "error") =>
            /\ Cardinality(MessagesOf(c, "user")) = 1
            /\ Cardinality(MessagesOf(c, "bot")) = 1
            /\ \A u \in MessagesOf(c, "user"), b \in MessagesOf(c, "bot") :
                 /\ u < b
                 /\ messages[u].text = <<"I", SP, "selected:", SP>> \o <<"Report", SP, "Items">>
                 /\ messages[b].text = DescribePromptText
                 /\ messages[b].text \notin ApologyTexts)

\* the missing-items call has failed, the generic prompt is the last message
\* and the text area is enabled
C17_Witness ==
  /\ \E c \in 1..Len(calls) : calls[c].kind = "missing-items" /\ calls[c].status = "error"
  /\ Len(messages) > 0
  /\ messages[Len(messages)].text = DescribePromptText
  /\ selectedSubIssue = MISSING_ITEMS_ID
  /\ InputEnabled

\* C18: the step in which a catalog fetch (categories or sub-issues) fails
\* appends one apology bot message, leaves the selected category, the
\* selected sub-issue and the selection flags as they were, and leaves an
\* empty option list on offer.
C18_CatalogFailureFrame ==
  [][\A c \in 1..Len(calls) :
       (/\ calls[c].kind \in {"categories", "subissues"}
        /\ calls[c].status = "pending"
        /\ calls'[c].status = "error") =>
         LET m == messages'[Len(messages')]
         IN  /\ messages' = Append(messages, m)
             /\ m.sender = "bot"
             /\ m.text = IF calls[c].kind = "categories" THEN CategoriesErrorText
                         ELSE SubIssuesErrorText
             /\ selectedCategory' = selectedCategory
             /\ selectedSubIssue' = selectedSubIssue
             /\ showCategorySelection' = showCategorySelection
             /\ showSubIssueSelection' = showSubIssueSelection
             /\ calls[c].kind = "categories" => categories' = <<>>
             /\ (calls[c].kind = "subissues" /\ SubIssueButtonsShown') => subIssues' = <<>>]_vars

\* C19: a submit of the missing-items widget goes through the direct-send
\* bridge and leaves the widget's selection empty: a submit that sends
\* appends the one user message of the bridge and empties the selection, and
\* a submit that the bridge rejects (loading = TRUE) is a step that changes
\* nothing, so wherever one can be made the selection is empty already.
C19_SubmitClearsSelection ==
  /\ [][\A c \in NewCalls :
          calls'[c].via = "MissingItemsSelector" =>
            /\ calls'[c].handler = "handleSendMessageDirect"
            /\ messages' = Append(messages, messages'[Len(messages')])
            /\ selectedItems'[calls'[c].widget] = <<>>]_vars
  /\ [](\A i \in 1..Len(messages) :
          (Live /\ MissingItemsWidgetShown(i) /\ loading) => selectedItems[i] = <<>>)

\* C20: the echo "I selected: <name>" of a category or sub-issue selection is
\* never classified as a structured prompt, whatever the name, and its text
\* is displayed.
C20_EchoNeverClassified ==
  (probeOut.done /\ probeText \in EchoTexts) =>
    /\ ~probeOut.missing
    /\ ~probeOut.dropdown
    /\ probeOut.textShown

\* C21: a click on a sub-issue button selects that sub-issue and appends its
\* echo; for the reserved id handle_missing_items the same step issues exactly
\* one call, to /missing-items, carrying username and order_id, and appends
\* nothing else; for any other id it issues no call and appends the generic
\* prompt after the echo. The step in which the /missing-items call succeeds
\* appends exactly one bot message, the response text (the apology when the
\* response has no text), and no generic prompt.
C21_ReservedEndpoint ==
  [][/\ \A k \in 1..Len(subIssues) :
          LET sub  == subIssues[k]
              echo == Len(messages) + 1
          IN  (/\ Len(messages') > Len(messages)
               /\ messages'[echo].sender = "user"
               /\ messages'[echo].text = SelectedText(sub.name)) =>
                /\ SubSeq(messages', 1, Len(messages)) = messages
                /\ selectedSubIssue' = sub.id
                /\ IF sub.id = "handle_missing_items"
                   THEN /\ Len(calls') = Len(calls) + 1
                        /\ calls'[NewCall].kind = "missing-items"
                        /\ calls'[NewCall].status = "pending"
                        /\ {"username", "order_id"} \subseteq calls'[NewCall].req.fields
                        /\ calls'[NewCall].req.username = username
                        /\ calls'[NewCall].req.order_id = orderId
                        /\ Len(messages') = echo
                   ELSE /\ calls' = calls
                        /\ Len(messages') = echo + 1
                        /\ messages'[echo + 1].sender = "bot"
                        /\ messages'[echo + 1].text = DescribePromptText
     /\ \A c \in 1..Len(calls) :
          (/\ calls[c].kind = "missing-items"
           /\ calls[c].status = "pending"
           /\ calls'[c].status = "ok") =>
            LET m == messages'[Len(messages')]
            IN  /\ messages' = Append(messages, m)
                /\ m.sender = "bot" /\ m.call = c
                /\ m.text = OrElse(calls'[c].reply, MissingFallbackText)
                /\ m.text # DescribePromptText]_vars

\* the reserved sub-issue has been selected, its call has succeeded and the
\* response text is the last message; another sub-issue has got the generic
\* prompt before
C21_Witness ==
  /\ \E c \in 1..Len(calls) :
       /\ calls[c].kind = "missing-items" /\ calls[c].status = "ok"
       /\ calls[c].reply = MissingItemsPrompt
       /\ messages[Len(messages)].call = c
       /\ messages[Len(messages)].text = MissingItemsPrompt
  /\ \E i \in 1..Len(messages) :
       messages[i].call = 0 /\ messages[i].text = DescribePromptText

\* C22: an image submission is a side channel. Handing a file over and the
\* end of its read append nothing; every read that ends posts the image, and
\* the step that settles the image call appends exactly one bot message (the
\* reply on success, the retry apology on failure) and no user message; all
\* these steps leave the selected category, the selected sub-issue, the route
\* and every earlier message as they were.
C22_ImageSideChannel ==
  [][/\ Len(readers') > Len(readers) =>
          /\ messages' = messages
          /\ UNCHANGED <<selectedCategory, selectedSubIssue, route>>
     /\ Len(readers') < Len(readers) =>
          /\ messages' = messages
          /\ UNCHANGED <<selectedCategory, selectedSubIssue, route>>
          /\ Len(calls') = Len(calls) + 1
          /\ calls'[NewCall].kind = "image"
     /\ \A c \in 1..Len(calls) :
          (/\ calls[c].kind = "image"
           /\ calls[c].status = "pending"
           /\ calls'[c].status # "pending") =>
            LET m == messages'[Len(messages')]
            IN  /\ messages' = Append(messages, m)
                /\ m.sender = "bot"
                /\ m.text = IF calls'[c].status = "error" THEN ImageErrorText
                            ELSE OrElse(calls'[c].reply, ImageFallbackText)
                /\ UNCHANGED <<selectedCategory, selectedSubIssue, route>>]_vars

\* C23: bootstrapping ends with a history of exactly one bot message. The
\* step that settles the category fetch starts from an empty history with no
\* category selected; on success it leaves the greeting with showCategories
\* set and some category list of the catalog, on failure the apology without
\* showCategories and an empty category list; in both cases no category and
\* no sub-issue is selected and the session stays on the chat route.
C23_Bootstrap ==
  [][\A c \in 1..Len(calls) :
       (/\ calls[c].kind = "categories"
        /\ calls[c].status = "pending"
        /\ calls'[c].status # "pending") =>
         /\ messages = <<>> /\ categories = <<>>
         /\ Len(messages') = 1
         /\ messages'[1].sender = "bot"
         /\ IF calls'[c].status = "ok"
            THEN /\ messages'[1].text = WelcomeText(service)
                 /\ messages'[1].showCategories
                 /\ categories' \in CategoryResponses
            ELSE /\ messages'[1].text = CategoriesErrorText
                 /\ ~messages'[1].showCategories
                 /\ categories' = <<>>
         /\ selectedCategory' = "" /\ selectedSubIssue' = ""
         /\ route' = "chat"]_vars

\* the category fetch has failed: the apology is the whole history and no
\* category is on offer
C23_Witness ==
  /\ Len(calls) = 1 /\ calls[1].kind = "categories" /\ calls[1].status = "error"
  /\ Len(messages) = 1 /\ messages[1].text = CategoriesErrorText
  /\ categories = <<>>

\* C24: when service or userType is absent, the mount effect redirects to the
\* dashboard and that is all: once the effect has run the route is the
\* dashboard, no call has been issued, the history is empty and nothing is
\* selected; and a session on the dashboard route never changes again.
C24_AbsentContextTerminates ==
  /\ []((effectRun /\ (service = "" \/ userType = "")) =>
          /\ route = "dashboard"
          /\ calls = <<>> /\ readers = <<>>
          /\ messages = <<>>
          /\ selectedCategory = "" /\ selectedSubIssue = "")
  /\ [][route = "dashboard" => UNCHANGED vars]_vars
  /\ []((effectRun /\ service # "" /\ userType # "") => route = "chat")

\* the session was entered without a user type and has been redirected
C24_Witness ==
  /\ effectRun /\ service # "" /\ userType = ""
  /\ route = "dashboard"

\* the name of the category with the given id
CategoryName(id) ==
  CategoryCatalog[CHOOSE k \in 1..Len(CategoryCatalog) : CategoryCatalog[k].id = id].name

\* C25: a category selection runs in this order: the step of the click
\* appends the user echo "I selected: <name>" and nothing else, selects the
\* category and sends the sub-issue fetch for (service, userType, categoryId);
\* the step in which that fetch succeeds appends exactly one bot message with
\* showSubIssues set, after the echo, and leaves the fetched list as the
\* sub-issue list on offer, the selections as they were; so the messages of a
\* successful fetch are always its echo and, later, its one prompt.
C25_CategorySelection ==
  /\ [][/\ \A c \in NewCalls :
             calls'[c].kind = "subissues" =>
               LET req == calls'[c].req
               IN  /\ Len(calls') = Len(calls) + 1
                   /\ req.fields = {"service", "user_type", "category"}
                   /\ req.service = service /\ req.user_type = userType
                   /\ selectedCategory' = req.category
                   /\ messages' = Append(messages, messages'[Len(messages')])
                   /\ messages'[Len(messages')].sender = "user"
                   /\ messages'[Len(messages')].text =
                        SelectedText(CategoryName(req.category))
                   /\ messages'[Len(messages')].call = c
        /\ \A c \in 1..Len(calls) :
             (/\ calls[c].kind = "subissues"
              /\ calls[c].status = "pending"
              /\ calls'[c].status = "ok") =>
               LET m == messages'[Len(messages')]
               IN  /\ messages' = Append(messages, m)
                   /\ m.sender = "bot" /\ m.showSubIssues /\ m.call = c
                   /\ m.text = SubIssuesPromptText
                   /\ subIssues' = SubIssueCatalog(calls[c].req.category)
                   /\ SubIssueButtonsShown'
                   /\ selectedCategory' = selectedCategory
                   /\ selectedSubIssue' = selectedSubIssue]_vars
  /\ [](\A c \in 1..Len(calls) :
          (calls[c].kind = "subissues" /\ calls[c].status = "ok") =>
            /\ Cardinality(MessagesOf(c, "user")) = 1
            /\ Cardinality(MessagesOf(c, "bot")) = 1
            /\ \A u \in MessagesOf(c, "user"), b \in MessagesOf(c, "bot") : u < b)

\* the category Payment has been selected from the greeting and its
\* sub-issues are on offer: echo and prompt are the last two messages
C25_Witness ==
  /\ Len(messages) = 3
  /\ messages[2].text = SelectedText(<<"Payment">>)
  /\ messages[3].showSubIssues
  /\ subIssues = SubIssueCatalog("payment")
  /\ selectedCategory = "payment" /\ selectedSubIssue = ""
  /\ ~loading

\* the items of a selection, and their sequence numbers
ItemsOf(sel) == {sel[k] : k \in 1..Len(sel)}
NumbersOf(sel) == {sel[k].number : k \in 1..Len(sel)}

\* C26 as stated: a click on an item that is not in the selection adds exactly
\* that item, a click on an item that is in the selection removes exactly that
\* item, all other items stay in or out as they were, and a second click on
\* the same item restores the selected set.
C26_ToggleExactlyThatItem ==
  (probeOut.done /\ probeOut.missingWidget) =>
    \A itemIndex \in 1..Len(probeOut.items) :
      LET items == probeOut.items
          sel   == selectedItems[1]
          item  == items[itemIndex]
          once  == toggleItemSelection(items, sel, itemIndex)
          twice == toggleItemSelection(items, once, itemIndex)
      IN  /\ item \notin ItemsOf(sel) => ItemsOf(once) = ItemsOf(sel) \cup {item}
          /\ item \in ItemsOf(sel) => ItemsOf(once) = ItemsOf(sel) \ {item}
          /\ ItemsOf(twice) = ItemsOf(sel)

\* C26: the selection is a toggle-set of sequence numbers. A click on an item
\* whose number is not selected appends that item; a click on an item whose
\* number is selected removes the selected item of that number and nothing
\* else; items of every other number stay in or out as they were, in their
\* order; and a second click on the same item restores the set of selected
\* numbers.
C26_ToggleBySequenceNumber ==
  (probeOut.done /\ probeOut.missingWidget) =>
    \A itemIndex \in 1..Len(probeOut.items) :
      LET items == probeOut.items
          sel   == selectedItems[1]
          item  == items[itemIndex]
          once  == toggleItemSelection(items, sel, itemIndex)
          twice == toggleItemSelection(items, once, itemIndex)
          Other(s) == SelectSeq(s, LAMBDA x : x.number # item.number)
      IN  /\ item.number \notin NumbersOf(sel) => once = Append(sel, item)
          /\ item.number \in NumbersOf(sel) =>
               /\ once = Other(sel)
               /\ NumbersOf(once) = NumbersOf(sel) \ {item.number}
          /\ Other(once) = Other(sel)
          /\ NumbersOf(twice) = NumbersOf(sel)

\* the widget lists Coke and Pepsi under the same number, and Coke is selected
C26_Witness ==
  /\ probeOut.done /\ probeOut.missingWidget
  /\ \E j, k \in 1..Len(probeOut.items) :
       /\ probeOut.items[j].number = probeOut.items[k].number
       /\ probeOut.items[j].name = <<"Coke">>
       /\ probeOut.items[k].name = <<"Pepsi">>
  /\ Len(selectedItems[1]) = 1
  /\ selectedItems[1][1].name = <<"Coke">>

\* the (number, label) pairs of extracted items, in order
PairsOf(items) ==
  [k \in 1..Len(items) |-> [number |-> items[k].number, name |-> items[k].name]]

\* line holds  <n>. <label>  from position i on: digits, a dot, a label
HasItemAt(line, i) ==
  /\ NumberedAt(line, i)
  /\ Len(ItemAt(line, i).name) > 0

\* what C27 prescribes for one line: the pair of a checkbox-prefixed numbered
\* item or of a bare numbered item, nothing for any other line
PrescribedItem(line) ==
  LET t == Trim(line)
      j == 2 + SpaceRun(t, 2)
  IN  IF Len(t) > 0 /\ t[1] = "CHECKBOX" /\ HasItemAt(t, j)
      THEN PairsOf(<<ItemAt(t, j)>>)
      ELSE IF HasItemAt(t, 1) THEN PairsOf(<<ItemAt(t, 1)>>)
      ELSE <<>>

RECURSIVE PrescribedItems(_)
PrescribedItems(lines) ==
  IF Len(lines) = 0 THEN <<>>
  ELSE PrescribedItem(lines[1]) \o PrescribedItems(Tail(lines))

\* C27: for every text, missing-items extraction returns exactly the
\* (number, label) pairs of the lines that are a checkbox-prefixed numbered
\* item or a bare numbered item, in document order and with trimmed labels;
\* any other line contributes nothing.
C27_MissingItemsExtraction ==
  probeOut.done => PairsOf(probeOut.items) = PrescribedItems(SplitLines(probeText))

\* what C28 prescribes for one line: the trimmed remainder of a line that
\* begins with the checkbox glyph, nothing for any other line
PrescribedOption(line) ==
  LET t    == Trim(line)
      rest == Trim(SubSeq(t, 2, Len(t)))
  IN  IF Len(t) > 0 /\ t[1] = "CHECKBOX" /\ Len(rest) > 0 THEN <<rest>> ELSE <<>>

RECURSIVE PrescribedOptions(_)
PrescribedOptions(lines) ==
  IF Len(lines) = 0 THEN <<>>
  ELSE PrescribedOption(lines[1]) \o PrescribedOptions(Tail(lines))

\* C28: for every text, dropdown extraction returns exactly the trimmed
\* remainders of the lines that begin with the checkbox glyph, in document
\* order; lines without the glyph prefix contribute nothing.
C28_DropdownExtraction ==
  probeOut.done => probeOut.options = PrescribedOptions(SplitLines(probeText))

\* the sub-issue ids the catalog lists for a category
SubIssueIds(categoryId) ==
  {SubIssueCatalog(categoryId)[k].id : k \in 1..Len(SubIssueCatalog(categoryId))}

\* C29: in every reachable state a selected sub-issue is one of the
\* sub-issues of the selected category, and every chat request carries a
\* sub_issue that belongs to its category.
C29_ConsistentSelection ==
  /\ selectedSubIssue # "" =>
       /\ selectedCategory # ""
       /\ selectedSubIssue \in SubIssueIds(selectedCategory)
  /\ \A c \in 1..Len(calls) :
       (calls[c].kind = "chat" /\ calls[c].req.sub_issue # "") =>
         calls[c].req.sub_issue \in SubIssueIds(calls[c].req.category)

\* C30: the cache entry of a user key holds only notifications that were
\* fetched for that user, whatever the interleaving of startPolling,
\* stopPolling and the responses.
C30_CacheHoldsOwnNotifications ==
  \A key \in DOMAIN notificationCache :
    \A k \in 1..Len(notificationCache[key]) :
      notificationCache[key][k].user = key

====
